---- MODULE Spec2Model ----
(***************************************************************************)
(* A model of the Bencode class of bencode.py (Python 2): the recursive    *)
(* encoder, which is a pure function of its argument, and the recursive-   *)
(* descent decoder, which keeps its buffer and its cursor in the fields    *)
(* _ben_string and _pointer of the Bencode object and is therefore         *)
(* modelled statement by statement, one call stack per caller.             *)
(*                                                                         *)
(* Python values are tagged records:                                       *)
(*   str    [t |-> "str",   s  |-> <<"a", "b">>]   one character per byte  *)
(*   int    [t |-> "int",   n  |-> 5]              machine-word integer    *)
(*   long   [t |-> "long",  n  |-> 5]              arbitrary precision     *)
(*   float  [t |-> "float", tenths |-> -15]        the float -1.5          *)
(*   list   [t |-> "list",  xs |-> <<v1, v2>>]                             *)
(*   tuple  [t |-> "tuple", xs |-> <<v1, v2>>]                             *)
(*   dict   [t |-> "dict",  kv |-> <<[k |-> key, v |-> val], ...>>]        *)
(*          the entries in iteration order, the keys distinct              *)
(*   None   [t |-> "NoneType"]                                             *)
(***************************************************************************)
EXTENDS Integers, Sequences, FiniteSets, TLC

(***************************************************************************)
(* Bounds of the exploration.                                              *)
(***************************************************************************)
\* longest raw buffer handed to decode
MaxLen == 4
\* longest byte string taken as a root value
MaxStrLen == 2
\* most nodes (leaves and containers) of a nested value
MaxNodes == 3
\* sys.maxint, scaled down: an int holds -SysMaxInt-1 .. SysMaxInt, and
\* Python 2 promotes any result outside that range to long
SysMaxInt == 12

(***************************************************************************)
(* Python values.                                                          *)
(***************************************************************************)
PyStr(s) == [t |-> "str", s |-> s]

PyInt(n) == [t |-> "int", n |-> n]

PyLong(n) == [t |-> "long", n |-> n]

PyFloat(tenths) == [t |-> "float", tenths |-> tenths]

PyList(xs) == [t |-> "list", xs |-> xs]

PyTuple(xs) == [t |-> "tuple", xs |-> xs]

PyDict(kv) == [t |-> "dict", kv |-> kv]

PyNone == [t |-> "NoneType"]

\* type(data).__name__
TypeName(data) == data.t

\* ord(c) of the bytes the model uses
Ord(c) ==
    CASE c = "-" -> 45
      [] c = "0" -> 48 [] c = "1" -> 49 [] c = "2" -> 50 [] c = "3" -> 51
      [] c = "4" -> 52 [] c = "5" -> 53 [] c = "6" -> 54 [] c = "7" -> 55
      [] c = "8" -> 56 [] c = "9" -> 57
      [] c = ":" -> 58
      [] c = "a" -> 97 [] c = "b" -> 98 [] c = "d" -> 100 [] c = "e" -> 101
      [] c = "i" -> 105 [] c = "l" -> 108 [] c = "x" -> 120

\* a < b on Python 2 str: byte-wise lexicographic, a proper prefix is smaller
RECURSIVE StrLess(_, _)
StrLess(a, b) ==
    IF Len(b) = 0 THEN FALSE
    ELSE IF Len(a) = 0 THEN TRUE
    ELSE IF Ord(Head(a)) # Ord(Head(b)) THEN Ord(Head(a)) < Ord(Head(b))
    ELSE StrLess(Tail(a), Tail(b))

\* the result of an int operation: Python 2 keeps an int while the result fits
\* the machine word, and promotes to long otherwise; a long operand stays long
PyNum(wasLong, n) ==
    IF wasLong \/ n > SysMaxInt \/ n < -SysMaxInt - 1 THEN PyLong(n) ELSE PyInt(n)

\* int(x) of a float: truncation toward zero
IntOfFloat(data) ==
    IF data.tenths < 0 THEN -((-data.tenths) \div 10) ELSE data.tenths \div 10

\* the keys of a dict, in iteration order
Keys(kv) == [i \in 1..Len(kv) |-> kv[i].k]

\* data[key]
Lookup(kv, key) == kv[CHOOSE i \in 1..Len(kv) : kv[i].k = key].v

HasKey(kv, key) == \E i \in 1..Len(kv) : kv[i].k = key

\* be_dict[key] = val: replaces the value of a present key, adds an absent one
DictSet(kv, key, val) ==
    IF HasKey(kv, key)
    THEN [i \in 1..Len(kv) |-> IF kv[i].k = key THEN [k |-> key, v |-> val] ELSE kv[i]]
    ELSE Append(kv, [k |-> key, v |-> val])

\* a == b on Python values
RECURSIVE PyEq(_, _)
PyEq(a, b) ==
    LET num == {"int", "long", "float"}
        val(x) == IF x.t = "float" THEN x.tenths ELSE 10 * x.n
    IN  IF a.t \in num /\ b.t \in num THEN val(a) = val(b)
        ELSE IF a.t # b.t THEN FALSE
        ELSE IF a.t = "str" THEN a.s = b.s
        ELSE IF a.t \in {"list", "tuple"}
             THEN /\ Len(a.xs) = Len(b.xs)
                  /\ \A i \in 1..Len(a.xs) : PyEq(a.xs[i], b.xs[i])
        ELSE IF a.t = "dict"
             THEN /\ Len(a.kv) = Len(b.kv)
                  /\ \A i \in 1..Len(a.kv) :
                        /\ HasKey(b.kv, a.kv[i].k)
                        /\ PyEq(a.kv[i].v, Lookup(b.kv, a.kv[i].k))
        ELSE TRUE

(***************************************************************************)
(* The encoder: lines 41-98.  A call either returns the Bencoded string or *)
(* raises; nothing is kept between calls.                                  *)
(***************************************************************************)
Returned(out) == [ok |-> TRUE, out |-> out]

\* raise Exception('Encoder is not defined for data type: %s' % data_type)
NotDefinedM(data_type) == Returned(<<>>)

NotDefined(data_type) == [ok |-> FALSE, exc |-> "Exception", data_type |-> data_type]

\* the keys of the encoders table
Encoders == {"dict", "list", "tuple", "str", "int", "float"}

DigitChars == <<"0", "1", "2", "3", "4", "5", "6", "7", "8", "9">>

RECURSIVE NatToStr(_)
NatToStr(n) ==
    IF n < 10 THEN <<DigitChars[n + 1]>>
    ELSE NatToStr(n \div 10) \o <<DigitChars[(n % 10) + 1]>>

\* '%d' % n
FormatD(n) == IF n < 0 THEN <<"-">> \o NatToStr(-n) ELSE NatToStr(n)

\* '%d:%s' % (len(data), data)
encode_string(data) == FormatD(Len(data)) \o <<":">> \o data

\* 'i%de' % abs(data): the sign is lost
encode_integerM(data) == <<"i">> \o NatToStr(IF data < 0 THEN -data ELSE data) \o <<"e">>

\* 'i%de' % data
encode_integer(data) == <<"i">> \o FormatD(data) \o <<"e">>

encode_float(data) == encode_integer(IntOfFloat(data))

\* the keys in iteration order, unsorted
sortedM(keys) == keys

\* sorted(keys): ascending, by insertion of each key at its place
RECURSIVE sorted(_)
sorted(keys) ==
    IF Len(keys) = 0 THEN <<>>
    ELSE LET rest == sorted(Tail(keys))
             k == Head(keys)
             before == SelectSeq(rest, LAMBDA x : StrLess(x, k))
             after == SelectSeq(rest, LAMBDA x : ~StrLess(x, k))
         IN  before \o <<k>> \o after

RECURSIVE local_encode(_)
RECURSIVE JoinItems(_)
RECURSIVE JoinPairs(_, _)

\* the loop of _encode_list: the first item that raises ends the call
JoinItems(xs) ==
    IF Len(xs) = 0 THEN Returned(<<>>)
    ELSE LET r == local_encode(Head(xs))
         IN  IF ~r.ok THEN r
             ELSE LET rest == JoinItems(Tail(xs))
                  IN  IF ~rest.ok THEN rest ELSE Returned(r.out \o rest.out)

encode_list(data) ==
    LET r == JoinItems(data.xs)
    IN  IF r.ok THEN Returned(<<"l">> \o r.out \o <<"e">>) ELSE r

\* the loop of _encode_dictionary over the sorted keys
JoinPairs(keys, kv) ==
    IF Len(keys) = 0 THEN Returned(<<>>)
    ELSE LET r == local_encode(Lookup(kv, Head(keys)))
         IN  IF ~r.ok THEN r
             ELSE LET rest == JoinPairs(Tail(keys), kv)
                  IN  IF ~rest.ok THEN rest
                      ELSE Returned(encode_string(Head(keys)) \o r.out \o rest.out)

encode_dictionary(data) ==
    LET r == JoinPairs(sorted(Keys(data.kv)), data.kv)
    IN  IF r.ok THEN Returned(<<"d">> \o r.out \o <<"e">>) ELSE r

local_encode(data) ==
    LET data_type == TypeName(data)
    IN  IF data_type \in Encoders
        THEN CASE data_type = "dict" -> encode_dictionary(data)
               [] data_type = "list" -> encode_list(data)
               [] data_type = "tuple" -> encode_list(data)
               [] data_type = "str" -> Returned(encode_string(data.s))
               [] data_type = "int" -> Returned(encode_integer(data.n))
               [] data_type = "float" -> Returned(encode_float(data))
        ELSE NotDefined(data_type)

encode(data) == local_encode(data)

(***************************************************************************)
(* The decoder's exceptions and slices.                                    *)
(***************************************************************************)
Digits == {"0", "1", "2", "3", "4", "5", "6", "7", "8", "9"}

\* int(c) of one digit character; any other character raises ValueError
DigitVal(c) == CHOOSE d \in 0..9 : DigitChars[d + 1] = c

\* s[lo:hi] for 0 <= lo <= hi: a slice never raises, it stops at the end of s
Slice(s, lo, hi) ==
    LET m == IF lo < Len(s) THEN lo ELSE Len(s)
        n == IF hi < Len(s) THEN hi ELSE Len(s)
    IN  SubSeq(s, m + 1, n)

\* the branch _local_decode takes on cur_char, with ':' read as a length
DispatchM(cur_char) ==
    CASE cur_char = "i" -> "parse_integer"
      [] cur_char = "l" -> "parse_list"
      [] cur_char = "d" -> "parse_dictionary"
      [] cur_char \in {"-", ":"} \cup Digits -> "parse_byte_string"
      [] OTHER -> "invalid"

\* the branch _local_decode takes on cur_char (lines 119-128)
Dispatch(cur_char) ==
    CASE cur_char = "i" -> "parse_integer"
      [] cur_char = "l" -> "parse_list"
      [] cur_char = "d" -> "parse_dictionary"
      [] cur_char \in {"-"} \cup Digits -> "parse_byte_string"
      [] OTHER -> "invalid"

\* self._pointer += 1
Consume(p) == p + 1

\* self._pointer = str_len: the cursor set to the length, not moved by it
SkipM(p, str_len) == str_len

\* self._pointer += str_len
Skip(p, str_len) == p + str_len

(***************************************************************************)
(* The arguments the callers pass.                                         *)
(***************************************************************************)
SeqsUpTo(S, n) == UNION {[1..k -> S] : k \in 0..n}

\* the bytes of the raw buffers
Chars == {"i", "l", "d", "e", ":", "-", "0", "1", "x"}

Buffers == SeqsUpTo(Chars, MaxLen)

\* the bytes of the root byte strings: the delimiters of the format and digits
StrChars == {"e", ":", "-", "i", "l", "d", "0", "1"}

RootStrs == {PyStr(s) : s \in SeqsUpTo(StrChars, MaxStrLen)}

RootInts == {PyInt(n) : n \in (-SysMaxInt - 1)..SysMaxInt}

RootLongs == {PyLong(SysMaxInt + 1), PyLong(-SysMaxInt - 2), PyLong(0)}

RootFloats == {PyFloat(-15), PyFloat(27), PyFloat(0)}

\* the leaves of the nested values
Leaves == {PyStr(<<>>), PyStr(<<"1", "e">>), PyInt(0), PyInt(-10), PyNone}

\* the keys of the nested dictionaries: "de" < "e" byte-wise
DictKeys == {<<"e">>, <<"d", "e">>}

\* the dictionaries over the values xs, under every choice and order of keys
Entries(xs) ==
    {[i \in 1..Len(xs) |-> [k |-> ks[i], v |-> xs[i]]] :
        ks \in {f \in [1..Len(xs) -> DictKeys] :
                    \A i, j \in 1..Len(xs) : i # j => f[i] # f[j]}}

\* the sequences of n nodes in all, W[k] being the values of k nodes
RECURSIVE ItemSeqs(_, _)
ItemSeqs(W, n) ==
    IF n = 0 THEN {<<>>}
    ELSE UNION {{<<x>> \o r : x \in W[k], r \in ItemSeqs(W, n - k)} : k \in 1..n}

\* <<the values of 1 node, ..., the values of n nodes>>: a leaf, or a list or a
\* dictionary over a sequence of one node less
RECURSIVE Weighted(_)
Weighted(n) ==
    IF n = 0 THEN <<>>
    ELSE LET W == Weighted(n - 1)
             seqs == ItemSeqs(W, n - 1)
         IN  Append(W, (IF n = 1 THEN Leaves ELSE {})
                          \cup {PyList(xs) : xs \in seqs}
                          \cup UNION {{PyDict(kv) : kv \in Entries(xs)} : xs \in seqs})

Nested == Weighted(MaxNodes)

RootTuples == {PyTuple(xs) : xs \in ItemSeqs(Nested, 2)}

\* the deeper test data of lines 236-240, with the model's keys and leaves:
\* 'Complex List', 'Complex Dictionary' (its keys out of order at two levels),
\* 'Embedded Dictionary', 'List after ByteString end in e', and a list with
\* None three levels down
Fixtures ==
    {PyList(<<PyStr(<<"e">>),
              PyDict(<<[k |-> <<"d", "e">>, v |-> PyList(<<PyStr(<<"1", "e">>), PyInt(-10)>>)]>>)>>),
     PyDict(<<[k |-> <<"l">>, v |-> PyList(<<PyStr(<<"e">>),
                                      PyDict(<<[k |-> <<"e">>, v |-> PyInt(-10)],
                                               [k |-> <<"d", "e">>, v |-> PyInt(0)]>>)>>)],
              [k |-> <<"i">>, v |-> PyInt(SysMaxInt)],
              [k |-> <<"e">>, v |-> PyStr(<<":">>)],
              [k |-> <<"d", "e">>, v |-> PyInt(-SysMaxInt - 1)]>>),
     PyDict(<<[k |-> <<"e">>, v |->
                PyDict(<<[k |-> <<"d">>, v |->
                           PyDict(<<[k |-> <<"l">>, v |-> PyStr(<<"d">>)]>>)]>>)]>>),
     PyDict(<<[k |-> <<"d", "e">>, v |-> PyList(<<PyInt(1), PyInt(-1)>>)]>>),
     PyList(<<PyInt(1), PyDict(<<[k |-> <<"e">>, v |-> PyList(<<PyStr(<<>>), PyNone>>)]>>)>>)}

Values ==
    RootStrs \cup RootInts \cup RootLongs \cup RootFloats \cup RootTuples
        \cup UNION {Nested[n] : n \in 1..MaxNodes} \cup Fixtures

\* v holds only byte strings, ints, lists and dictionaries
RECURSIVE IsPlain(_)
IsPlain(v) ==
    CASE v.t \in {"str", "int"} -> TRUE
      [] v.t = "list" -> \A i \in 1..Len(v.xs) : IsPlain(v.xs[i])
      [] v.t = "dict" -> \A i \in 1..Len(v.kv) : IsPlain(v.kv[i].v)
      [] OTHER -> FALSE

\* the kinds without an encoder that occur in v, as a root or nested
RECURSIVE Unsupported(_)
Unsupported(v) ==
    CASE v.t \in {"list", "tuple"} -> UNION {Unsupported(v.xs[i]) : i \in 1..Len(v.xs)}
      [] v.t = "dict" -> UNION {Unsupported(v.kv[i].v) : i \in 1..Len(v.kv)}
      [] v.t \in Encoders -> {}
      [] OTHER -> {v.t}

\* the keys of every dictionary of v are in strictly ascending order
RECURSIVE KeysAscending(_)
KeysAscending(v) ==
    CASE v.t \in {"list", "tuple"} -> \A i \in 1..Len(v.xs) : KeysAscending(v.xs[i])
      [] v.t = "dict" ->
            /\ \A i \in 1..Len(v.kv) : KeysAscending(v.kv[i].v)
            /\ \A i \in 1..(Len(v.kv) - 1) : StrLess(v.kv[i].k, v.kv[i + 1].k)
      [] OTHER -> TRUE

(***************************************************************************)
(* The format, lines 8-23: <length>:<contents>, i<number in base 10>e,     *)
(* l<contents>e, d<contents>e.  WireForm(v) is the encoding of v when its  *)
(* dictionaries are listed in ascending key order; an integer is written   *)
(* whatever its magnitude.                                                 *)
(***************************************************************************)
RECURSIVE WireForm(_)
RECURSIVE WireItems(_)
RECURSIVE WirePairs(_)

WireItems(xs) ==
    IF Len(xs) = 0 THEN <<>> ELSE WireForm(Head(xs)) \o WireItems(Tail(xs))

WirePairs(kv) ==
    IF Len(kv) = 0 THEN <<>>
    ELSE FormatD(Len(Head(kv).k)) \o <<":">> \o Head(kv).k
            \o WireForm(Head(kv).v) \o WirePairs(Tail(kv))

WireForm(v) ==
    CASE v.t = "str" -> FormatD(Len(v.s)) \o <<":">> \o v.s
      [] v.t \in {"int", "long"} -> <<"i">> \o FormatD(v.n) \o <<"e">>
      [] v.t = "list" -> <<"l">> \o WireItems(v.xs) \o <<"e">>
      [] v.t = "dict" -> <<"d">> \o WirePairs(v.kv) \o <<"e">>

\* v holds only byte strings, integers, lists and dictionaries
RECURSIVE IsWire(_)
IsWire(v) ==
    CASE v.t \in {"str", "int", "long"} -> TRUE
      [] v.t = "list" -> \A i \in 1..Len(v.xs) : IsWire(v.xs[i])
      [] v.t = "dict" -> \A i \in 1..Len(v.kv) : IsWire(v.kv[i].v)
      [] OTHER -> FALSE

\* the canonical encodings: sorted unique keys, no leading zero, no negative
\* zero, exact lengths
CanonBuffers == {WireForm(v) : v \in {w \in Values : IsWire(w) /\ KeysAscending(w)}}

Jobs ==
    {[op |-> "decode", ben_string |-> b] : b \in Buffers}
        \cup {[op |-> "decode_encode", ben_string |-> b] : b \in CanonBuffers}
        \cup {[op |-> "encode_decode", data |-> v] : v \in Values}

(***************************************************************************)
(* The state.  A Bencode object holds the fields _ben_string and _pointer  *)
(* (lines 32-33, assigned at lines 110-111); every other variable of the   *)
(* decoder is a local of one call, kept in that call's stack frame.        *)
(***************************************************************************)
VARIABLES
    ben_string,     \* object -> its _ben_string
    pointer,        \* object -> its _pointer
    self,           \* caller -> the Bencode object it calls
    input,          \* caller -> what it calls the object with
    phase,          \* caller -> "start", "encoded", "decoding", "decoded", "done"
    stack,          \* caller -> the frames of its decode call, innermost last
    result,         \* caller -> how its decode call ended
    encoded,        \* caller -> how its encode call ended
    stdout,         \* caller -> the lines its decode call printed
    nsteps          \* caller -> the statements its decode call has run

vars == <<ben_string, pointer, self, input, phase, stack, result, encoded, stdout, nsteps>>

Callers == DOMAIN input

NoCall == [status |-> "none"]

\* a frame: the function, the statement it is at, and its locals
Frame(fn, pc) ==
    [fn |-> fn, pc |-> pc, end_char |-> "", num |-> PyInt(0), mult |-> 1,
     key |-> <<>>, acc |-> <<>>, ret |-> PyNone]

Top(t) == stack[t][Len(stack[t])]

At(t, fn) == phase[t] = "decoding" /\ Len(stack[t]) > 0 /\ Top(t).fn = fn

ReplaceTop(stk, f) == [stk EXCEPT ![Len(stk)] = f]

\* the callee returns v: its frame goes, the caller's frame receives v
ReturnTo(stk, v) ==
    LET rest == SubSeq(stk, 1, Len(stk) - 1)
    IN  [rest EXCEPT ![Len(rest)].ret = v]

InRange(o) == pointer[o] < Len(ben_string[o])

\* self._ben_string[self._pointer]
CurChar(o) == ben_string[o][pointer[o] + 1]

\* one statement that leaves the call running
Continue(t, stk, p) ==
    /\ stack' = [stack EXCEPT ![t] = stk]
    /\ pointer' = [pointer EXCEPT ![self[t]] = p]
    /\ nsteps' = [nsteps EXCEPT ![t] = @ + 1]
    /\ UNCHANGED <<ben_string, self, input, phase, result, encoded, stdout>>

\* the decode call ends: it returns or it raises to its caller
Finish(t, res, printed) ==
    /\ stack' = [stack EXCEPT ![t] = <<>>]
    /\ result' = [result EXCEPT ![t] = res]
    /\ stdout' = [stdout EXCEPT ![t] = @ \o printed]
    /\ phase' = [phase EXCEPT ![t] =
            IF input[t].op = "decode_encode" /\ res.status = "return"
            THEN "decoded" ELSE "done"]
    /\ nsteps' = [nsteps EXCEPT ![t] = @ + 1]
    /\ UNCHANGED <<ben_string, pointer, self, input, encoded>>

\* an IndexError unwinds to the except clause of decode (lines 113-114),
\* which prints the cursor and the length; decode then returns None
IndexError(t) ==
    Finish(t, [status |-> "return", value |-> PyNone],
           <<[pointer |-> pointer[self[t]], length |-> Len(ben_string[self[t]])]>>)

\* any other exception leaves decode
Raise(t, exc, position, char) ==
    Finish(t, [status |-> "raise", exc |-> exc, position |-> position, char |-> char],
           <<>>)

(***************************************************************************)
(* The operations.                                                         *)
(***************************************************************************)
\* encode (lines 41-98), called with the data, or with what decode returned
Encode(t) ==
    /\ \/ input[t].op = "encode_decode" /\ phase[t] = "start"
       \/ input[t].op = "decode_encode" /\ phase[t] = "decoded"
    /\ LET data == IF input[t].op = "encode_decode" THEN input[t].data
                   ELSE result[t].value
           out == encode(data)
       IN  /\ encoded' = [encoded EXCEPT ![t] = out]
           /\ phase' = [phase EXCEPT ![t] =
                  IF input[t].op = "encode_decode" /\ out.ok THEN "encoded" ELSE "done"]
    /\ UNCHANGED <<ben_string, pointer, self, input, stack, result, stdout, nsteps>>

\* decode (lines 107-114)
Decode(t) ==
    \/ /\ \/ input[t].op \in {"decode", "decode_encode"} /\ phase[t] = "start"
          \/ input[t].op = "encode_decode" /\ phase[t] = "encoded"
       /\ ben_string' = [ben_string EXCEPT ![self[t]] =
              IF input[t].op = "encode_decode" THEN encoded[t].out
              ELSE input[t].ben_string]
       /\ stack' = [stack EXCEPT ![t] = <<Frame("decode", "set_pointer")>>]
       /\ phase' = [phase EXCEPT ![t] = "decoding"]
       /\ nsteps' = [nsteps EXCEPT ![t] = 1]
       /\ UNCHANGED <<pointer, self, input, result, encoded, stdout>>
    \/ /\ At(t, "decode")
       /\ IF Top(t).pc = "set_pointer"
          THEN Continue(t, ReplaceTop(stack[t], [Top(t) EXCEPT !.pc = "return"])
                              \o <<Frame("local_decode", "start")>>, 0)
          ELSE Finish(t, [status |-> "return", value |-> Top(t).ret], <<>>)

\* _local_decode (lines 116-128); the parser it calls returns in its place
LocalDecode(t) ==
    /\ At(t, "local_decode")
    /\ LET o == self[t]
       IN  IF ~InRange(o) THEN IndexError(t)
           ELSE IF Dispatch(CurChar(o)) = "invalid"
                THEN Raise(t, "Exception", pointer[o], CurChar(o))
                ELSE Continue(t, ReplaceTop(stack[t],
                                     Frame(Dispatch(CurChar(o)), "start")), pointer[o])

\* _parse_dictionary (lines 130-143)
ParseDictionary(t) ==
    /\ At(t, "parse_dictionary")
    /\ LET o == self[t]
           f == Top(t)
       IN  CASE f.pc = "start" ->
                  Continue(t, ReplaceTop(stack[t], [f EXCEPT !.pc = "while", !.acc = <<>>]),
                           Consume(pointer[o]))
             [] f.pc = "while" ->
                  IF ~InRange(o) THEN IndexError(t)
                  ELSE IF CurChar(o) # "e"
                       THEN Continue(t, ReplaceTop(stack[t], [f EXCEPT !.pc = "key"])
                                           \o <<Frame("parse_byte_string", "start")>>,
                                     pointer[o])
                       ELSE Continue(t, ReplaceTop(stack[t], [f EXCEPT !.pc = "end"]),
                                     pointer[o])
             [] f.pc = "key" ->
                  Continue(t, ReplaceTop(stack[t], [f EXCEPT !.pc = "val", !.key = f.ret.s])
                                  \o <<Frame("local_decode", "start")>>, pointer[o])
             [] f.pc = "val" ->
                  Continue(t, ReplaceTop(stack[t],
                                  [f EXCEPT !.pc = "while",
                                            !.acc = DictSet(f.acc, f.key, f.ret)]),
                           pointer[o])
             [] f.pc = "end" ->
                  Continue(t, ReturnTo(stack[t], PyDict(f.acc)), Consume(pointer[o]))

\* _parse_list (lines 145-159)
ParseList(t) ==
    /\ At(t, "parse_list")
    /\ LET o == self[t]
           f == Top(t)
       IN  CASE f.pc = "start" ->
                  Continue(t, ReplaceTop(stack[t], [f EXCEPT !.pc = "while", !.acc = <<>>]),
                           Consume(pointer[o]))
             [] f.pc = "while" ->
                  IF ~InRange(o) THEN IndexError(t)
                  ELSE IF CurChar(o) # "e"
                       THEN Continue(t, ReplaceTop(stack[t], [f EXCEPT !.pc = "append"])
                                           \o <<Frame("local_decode", "start")>>,
                                     pointer[o])
                       ELSE Continue(t, ReplaceTop(stack[t], [f EXCEPT !.pc = "end"]),
                                     pointer[o])
             [] f.pc = "append" ->
                  Continue(t, ReplaceTop(stack[t],
                                  [f EXCEPT !.pc = "while", !.acc = Append(f.acc, f.ret)]),
                           pointer[o])
             [] f.pc = "end" ->
                  Continue(t, ReturnTo(stack[t], PyList(f.acc)), Consume(pointer[o]))

\* _parse_integer (lines 161-173)
ParseInteger(t) ==
    /\ At(t, "parse_integer")
    /\ LET o == self[t]
           f == Top(t)
       IN  CASE f.pc = "start" ->
                  Continue(t, ReplaceTop(stack[t], [f EXCEPT !.pc = "sign", !.mult = 1]),
                           Consume(pointer[o]))
             [] f.pc = "sign" ->
                  IF ~InRange(o) THEN IndexError(t)
                  ELSE LET neg == CurChar(o) = "-"
                       IN  Continue(t,
                               ReplaceTop(stack[t],
                                   [f EXCEPT !.pc = "return",
                                             !.mult = IF neg THEN -1 ELSE f.mult])
                                   \o <<[Frame("get_number", "while") EXCEPT !.end_char = "e"]>>,
                               IF neg THEN Consume(pointer[o]) ELSE pointer[o])
             [] f.pc = "return" ->
                  Continue(t, ReturnTo(stack[t],
                                  PyNum(f.ret.t = "long", f.ret.n * f.mult)),
                           pointer[o])

\* _get_number (lines 175-185); a call starts with num = 0
GetNumber(t) ==
    /\ At(t, "get_number")
    /\ LET o == self[t]
           f == Top(t)
       IN  CASE f.pc = "while" ->
                  IF ~InRange(o) THEN IndexError(t)
                  ELSE IF CurChar(o) = f.end_char
                       THEN Continue(t, ReplaceTop(stack[t], [f EXCEPT !.pc = "end"]),
                                     pointer[o])
                  ELSE IF CurChar(o) \notin Digits
                       THEN Raise(t, "ValueError", pointer[o], CurChar(o))
                  ELSE Continue(t,
                           ReplaceTop(stack[t],
                               [f EXCEPT !.num = PyNum(f.num.t = "long",
                                                       f.num.n * 10 + DigitVal(CurChar(o)))]),
                           Consume(pointer[o]))
             [] f.pc = "end" ->
                  Continue(t, ReturnTo(stack[t], f.num), Consume(pointer[o]))

\* _parse_byte_string (lines 187-195)
ParseByteString(t) ==
    /\ At(t, "parse_byte_string")
    /\ LET o == self[t]
           f == Top(t)
       IN  CASE f.pc = "start" ->
                  Continue(t, ReplaceTop(stack[t], [f EXCEPT !.pc = "slice"])
                                  \o <<[Frame("get_number", "while") EXCEPT !.end_char = ":"]>>,
                           pointer[o])
             [] f.pc = "slice" ->
                  LET str_len == f.ret.n
                      byte_string == Slice(ben_string[o], pointer[o], pointer[o] + str_len)
                  IN  Continue(t, ReturnTo(stack[t], PyStr(byte_string)),
                               Skip(pointer[o], str_len))

Next ==
    \/ \E t \in Callers : Encode(t)
    \/ \E t \in Callers : Decode(t)
    \/ \E t \in Callers : LocalDecode(t)
    \/ \E t \in Callers : ParseDictionary(t)
    \/ \E t \in Callers : ParseList(t)
    \/ \E t \in Callers : ParseInteger(t)
    \/ \E t \in Callers : GetNumber(t)
    \/ \E t \in Callers : ParseByteString(t)

\* the state after construction: the fields are the class attributes
Fresh(objects, callers) ==
    /\ ben_string = [o \in objects |-> <<>>]
    /\ pointer = [o \in objects |-> 0]
    /\ phase = [t \in callers |-> "start"]
    /\ stack = [t \in callers |-> <<>>]
    /\ result = [t \in callers |-> NoCall]
    /\ encoded = [t \in callers |-> NoCall]
    /\ stdout = [t \in callers |-> <<>>]
    /\ nsteps = [t \in callers |-> 0]

\* one caller, one object, one call of each kind
Init ==
    /\ input \in [{1} -> Jobs]
    /\ self = [t \in {1} |-> 1]
    /\ Fresh({1}, {1})

Spec == Init /\ [][Next]_vars

\* two callers, each with an object of its own or both with the same one
ConcJobs ==
    {[op |-> "decode", ben_string |-> <<"l", "i", "-", "1", "e", "e">>],
     [op |-> "decode", ben_string |-> <<"1", ":", "x">>],
     [op |-> "decode_encode", ben_string |-> <<"d", "1", ":", "e", "0", ":", "e">>]}

InitConc ==
    /\ input \in [{1, 2} -> ConcJobs]
    /\ self \in {[t \in {1, 2} |-> 1], [t \in {1, 2} |-> t]}
    /\ Fresh({1, 2}, {1, 2})

SpecConc == InitConc /\ [][Next]_vars

(***************************************************************************)
(* One decode call run alone, as a function of its buffer: the same        *)
(* statements (lines 107-195) with the cursor p passed along.              *)
(***************************************************************************)
Parsed(val, p) == [ok |-> TRUE, val |-> val, p |-> p]

Ended(res) == [ok |-> FALSE, res |-> res]

IndexErrorAlone == Ended([status |-> "return", value |-> PyNone])

RECURSIVE NumberAt(_, _, _, _)
NumberAt(b, p, end_char, num) ==
    IF p >= Len(b) THEN IndexErrorAlone
    ELSE IF b[p + 1] = end_char THEN Parsed(num, p + 1)
    ELSE IF b[p + 1] \notin Digits
         THEN Ended([status |-> "raise", exc |-> "ValueError",
                     position |-> p, char |-> b[p + 1]])
    ELSE NumberAt(b, p + 1, end_char,
                  PyNum(num.t = "long", num.n * 10 + DigitVal(b[p + 1])))

ByteStringAt(b, p) ==
    LET r == NumberAt(b, p, ":", PyInt(0))
    IN  IF ~r.ok THEN r
        ELSE Parsed(PyStr(Slice(b, r.p, r.p + r.val.n)), r.p + r.val.n)

IntegerAt(b, p) ==
    IF p + 1 >= Len(b) THEN IndexErrorAlone
    ELSE LET neg == b[p + 2] = "-"
             r == NumberAt(b, IF neg THEN p + 2 ELSE p + 1, "e", PyInt(0))
         IN  IF ~r.ok THEN r
             ELSE Parsed(PyNum(r.val.t = "long", r.val.n * (IF neg THEN -1 ELSE 1)), r.p)

RECURSIVE DecodeAt(_, _)
RECURSIVE ItemsAt(_, _, _)
RECURSIVE PairsAt(_, _, _)

ItemsAt(b, p, val) ==
    IF p >= Len(b) THEN IndexErrorAlone
    ELSE IF b[p + 1] = "e" THEN Parsed(PyList(val), p + 1)
    ELSE LET r == DecodeAt(b, p)
         IN  IF ~r.ok THEN r ELSE ItemsAt(b, r.p, Append(val, r.val))

PairsAt(b, p, be_dict) ==
    IF p >= Len(b) THEN IndexErrorAlone
    ELSE IF b[p + 1] = "e" THEN Parsed(PyDict(be_dict), p + 1)
    ELSE LET key == ByteStringAt(b, p)
         IN  IF ~key.ok THEN key
             ELSE LET val == DecodeAt(b, key.p)
                  IN  IF ~val.ok THEN val
                      ELSE PairsAt(b, val.p, DictSet(be_dict, key.val.s, val.val))

DecodeAt(b, p) ==
    IF p >= Len(b) THEN IndexErrorAlone
    ELSE CASE Dispatch(b[p + 1]) = "parse_integer" -> IntegerAt(b, p)
           [] Dispatch(b[p + 1]) = "parse_list" -> ItemsAt(b, p + 1, <<>>)
           [] Dispatch(b[p + 1]) = "parse_dictionary" -> PairsAt(b, p + 1, <<>>)
           [] Dispatch(b[p + 1]) = "parse_byte_string" -> ByteStringAt(b, p)
           [] OTHER -> Ended([status |-> "raise", exc |-> "Exception",
                              position |-> p, char |-> b[p + 1]])

\* how decode(b) ends when no other call touches the object
DecodeAlone(b) ==
    LET r == DecodeAt(b, 0)
    IN  IF r.ok THEN [status |-> "return", value |-> r.val] ELSE r.res

\* the buffer a caller hands to decode
DecodeArg(t) ==
    IF input[t].op = "encode_decode" THEN encoded[t].out ELSE input[t].ben_string

\* the statement-by-statement decoder and the function agree when a call runs alone
AloneAgrees ==
    \A t \in Callers : result[t].status # "none" => result[t] = DecodeAlone(DecodeArg(t))

(***************************************************************************)
(* The claims.                                                             *)
(***************************************************************************)
Stepped(t) == nsteps'[t] # nsteps[t]

\* C1: round trip.  When encode(v) followed by decode has run for a value v
\* built only from byte strings, ints, lists and dictionaries, encode returned
\* and decode returned a value equal to v.
C1_RoundTrip ==
    \A t \in Callers :
        (/\ input[t].op = "encode_decode"
         /\ phase[t] = "done"
         /\ IsPlain(input[t].data))
            => /\ encoded[t].ok
               /\ result[t].status = "return"
               /\ PyEq(result[t].value, input[t].data)

\* C1 witness: the round trip of a two-entry dictionary holding a negative int
C1_Witness ==
    \E t \in Callers :
        /\ input[t].op = "encode_decode"
        /\ phase[t] = "done"
        /\ IsPlain(input[t].data)
        /\ input[t].data.t = "dict"
        /\ Len(input[t].data.kv) = 2
        /\ input[t].data.kv[1].v = PyInt(-10)
        /\ result[t].status = "return"

\* every reordering of the entries of the dictionaries of v
RECURSIVE Reorderings(_)
Reorderings(v) ==
    LET items == IF v.t = "dict" THEN [i \in 1..Len(v.kv) |-> v.kv[i].v]
                 ELSE IF v.t \in {"list", "tuple"} THEN v.xs ELSE <<>>
        n == Len(items)
        each == {f \in [1..n -> UNION {Reorderings(items[i]) : i \in 1..n}] :
                    \A i \in 1..n : f[i] \in Reorderings(items[i])}
        perms == {q \in [1..n -> 1..n] : \A i, j \in 1..n : i # j => q[i] # q[j]}
    IN  CASE v.t = "dict" ->
                {PyDict([i \in 1..n |-> [k |-> v.kv[q[i]].k, v |-> f[q[i]]]]) :
                    q \in perms, f \in each}
          [] v.t \in {"list", "tuple"} -> {[t |-> v.t, xs |-> f] : f \in each}
          [] OTHER -> {v}

\* C2: sorted keys.  Every reordering of the entries of the dictionaries of
\* the data encodes to the same string, which is 'd', the pairs in ascending
\* key order, 'e' at every level (the format's form of the sorted data); read
\* back, the keys of every dictionary are met in strictly ascending byte-wise
\* order.
C2_SortedKeys ==
    \A t \in Callers :
        input[t].op = "encode_decode" =>
            /\ phase[t] = "encoded" =>
                    \A w \in Reorderings(input[t].data) :
                        /\ encode(w) = encoded[t]
                        /\ (IsPlain(w) /\ KeysAscending(w))
                                => encoded[t].out = WireForm(w)
            /\ (phase[t] = "done" /\ encoded[t].ok /\ result[t].status = "return")
                    => KeysAscending(result[t].value)

\* C2 witness: a dictionary whose entries, and those of a dictionary inside a
\* list inside it, were inserted out of order has been encoded and read back
C2_Witness ==
    \E t \in Callers :
        /\ input[t].op = "encode_decode"
        /\ phase[t] = "done"
        /\ input[t].data.t = "dict"
        /\ Len(input[t].data.kv) >= 2
        /\ StrLess(input[t].data.kv[2].k, input[t].data.kv[1].k)
        /\ input[t].data.kv[1].v.t = "list"
        /\ ~KeysAscending(input[t].data.kv[1].v)
        /\ encoded[t].ok
        /\ result[t].status = "return"
        /\ KeysAscending(result[t].value)

\* C3: a declared length that runs past the end of the buffer makes decode
\* fail: the statement that takes the payload ends the call with an exception.
C3_TruncatedString ==
    [][\A t \in Callers :
        (/\ At(t, "parse_byte_string")
         /\ Top(t).pc = "slice"
         /\ Top(t).ret.n > Len(ben_string[self[t]]) - pointer[self[t]]
         /\ Stepped(t))
            => /\ phase'[t] = "done"
               /\ result'[t].status = "raise"]_vars

\* C4: whenever decode returns a value, the cursor is at the end of the buffer.
C4_ConsumesBuffer ==
    \A t \in Callers :
        (result[t].status = "return" /\ result[t].value # PyNone)
            => pointer[self[t]] = Len(ben_string[self[t]])

\* C5: a decode call ends as it ends when run alone, whatever the other
\* caller does meanwhile.
C5_NoInterference ==
    \A t \in Callers :
        result[t].status # "none" => result[t] = DecodeAlone(DecodeArg(t))

\* C6: a read at or past the end of the buffer (the IndexError whose handler
\* prints the cursor and the length) reaches the caller as a failure: decode
\* does not return.
C6_TruncatedInput ==
    \A t \in Callers :
        Len(stdout[t]) > 0 => result[t].status = "raise"

\* C7: when the byte _local_decode looks at is not 'i', 'l', 'd', '-' or a
\* digit, that statement ends the call with the exception that names the
\* offset of the byte and the byte, and nothing is returned.
C7_MalformedDispatch ==
    [][\A t \in Callers :
        (/\ At(t, "local_decode")
         /\ InRange(self[t])
         /\ CurChar(self[t]) \notin {"i", "l", "d", "-"} \cup Digits
         /\ Stepped(t))
            => /\ phase'[t] = "done"
               /\ stack'[t] = <<>>
               /\ result'[t] = [status |-> "raise", exc |-> "Exception",
                                position |-> pointer[self[t]],
                                char |-> CurChar(self[t])]]_vars

\* C7 witness: a call ended by the exception at a dispatch inside a container
C7_Witness ==
    \E t \in Callers :
        /\ phase[t] = "done"
        /\ result[t].status = "raise"
        /\ result[t].exc = "Exception"
        /\ result[t].position > 1
        /\ result[t].char = ":"

\* C8: encode of data holding a value of a kind without an encoder, as the root
\* or nested, raises the exception naming such a kind; no string is returned
\* and decode is not reached.
C8_UnsupportedType ==
    \A t \in Callers :
        (/\ input[t].op = "encode_decode"
         /\ phase[t] # "start"
         /\ Unsupported(input[t].data) # {})
            => /\ ~encoded[t].ok
               /\ encoded[t].exc = "Exception"
               /\ encoded[t].data_type \in Unsupported(input[t].data)
               /\ phase[t] = "done"
               /\ result[t] = NoCall

\* C8 witness: encode has raised for None two levels down, in a list that is a
\* value of a dictionary
C8_Witness ==
    \E t \in Callers :
        /\ input[t].op = "encode_decode"
        /\ phase[t] = "done"
        /\ input[t].data.t = "dict"
        /\ Len(input[t].data.kv) = 1
        /\ input[t].data.kv[1].v = PyList(<<PyNone>>)
        /\ ~encoded[t].ok
        /\ encoded[t].data_type = "NoneType"

\* C9: decode of a canonical buffer followed by encode of what it returned
\* gives the buffer back.
C9_CanonicalReencode ==
    \A t \in Callers :
        (input[t].op = "decode_encode" /\ phase[t] = "done")
            => /\ result[t].status = "return"
               /\ encoded[t].ok
               /\ encoded[t].out = input[t].ben_string

\* the statements a decode call runs on a buffer of n bytes, at most
StepBound(n) == 5 * n + 3

\* C10: termination.  No statement of a decode call moves the cursor back, and
\* a call on n bytes has run at most StepBound(n) statements: since every
\* statement of a running call is followed by another or ends the call, each
\* call ends, and no loop iterates without moving the cursor.
C10_Terminates ==
    [][\A t \in Callers :
        (phase[t] = "decoding" /\ Stepped(t))
            => /\ pointer'[self[t]] >= pointer[self[t]]
               /\ nsteps'[t] <= StepBound(Len(ben_string[self[t]]))]_vars

\* C10 witness: a call has ended after going twice round the list loop
C10_Witness ==
    \E t \in Callers :
        /\ phase[t] = "done"
        /\ result[t].status = "return"
        /\ result[t].value.t = "list"
        /\ Len(result[t].value.xs) = 2

====
